---- MODULE Spec2Model ----
(***************************************************************************)
(* A model of cavatica_airflow_plugins: the CavaticaTaskSensor and the two *)
(* storage operators that start a job and wait for it with the sensor.     *)
(*                                                                         *)
(* Python strings that the code inspects (status, endpoint, task id) are   *)
(* sequences of one-character strings, so that upper(), endswith() and     *)
(* concatenation are computed.  Python dicts are insertion-ordered         *)
(* sequences of [k, v] items, held in a heap and referred to by id, so     *)
(* that two instances may alias one dict object (a default argument).      *)
(***************************************************************************)
EXTENDS Naturals, Sequences, FiniteSets, TLC

VARIABLES heap, sensor, polls, calls, exportOp, importOp

vars == <<heap, sensor, polls, calls, exportOp, importOp>>

(* ----------------------------- bounds ---------------------------------- *)

\* Pokes the host scheduler makes in one run, over all sensors.
MaxPolls == 3

(* ----------------------------- strings --------------------------------- *)

LowerCase ==
  <<"a","b","c","d","e","f","g","h","i","j","k","l","m",
    "n","o","p","q","r","s","t","u","v","w","x","y","z">>

UpperCase ==
  <<"A","B","C","D","E","F","G","H","I","J","K","L","M",
    "N","O","P","Q","R","S","T","U","V","W","X","Y","Z">>

upper_char(c) ==
  IF \E i \in DOMAIN LowerCase : LowerCase[i] = c
  THEN UpperCase[CHOOSE i \in DOMAIN LowerCase : LowerCase[i] = c]
  ELSE c

\* The status compared as received.
upper_omitted(s) == s

\* str.upper()
upper(s) == [i \in DOMAIN s |-> upper_char(s[i])]

\* str.endswith(c) for a one-character c
endswith(s, c) == Len(s) > 0 /\ s[Len(s)] = c

QUEUED    == <<"Q","U","E","U","E","D">>
RUNNING   == <<"R","U","N","N","I","N","G">>
COMPLETED == <<"C","O","M","P","L","E","T","E","D">>
PENDING   == <<"P","E","N","D","I","N","G">>
ABORTED   == <<"A","B","O","R","T","E","D">>
FAILED    == <<"F","A","I","L","E","D">>

(* ------------------------------ dicts ---------------------------------- *)

Str(x) == [kind |-> "str", s |-> x, items |-> <<>>]
Bool(x) == [kind |-> "bool", s |-> x, items |-> <<>>]
Dict(its) == [kind |-> "dict", s |-> "", items |-> its]

Item(key, val) == [k |-> key, v |-> val]

Keys(d) == {d[i].k : i \in DOMAIN d}

\* key in d
HasKey(d, key) == \E i \in DOMAIN d : d[i].k = key

\* d[key]
Get(d, key) == d[CHOOSE i \in DOMAIN d : d[i].k = key].v

\* d[key] = val
SetItem(d, key, val) ==
  IF HasKey(d, key)
  THEN [i \in DOMAIN d |-> IF d[i].k = key THEN Item(key, val) ELSE d[i]]
  ELSE Append(d, Item(key, val))

\* bool(d): an empty dict is falsy
truthy(d) == Len(d) > 0

(* ------------------------- the world outside --------------------------- *)

Sensors == {"s1", "s2"}

\* The dict a sensor's _build_headers returns is a fresh object.
BuiltId(s) == IF s = "s1" THEN "built_s1" ELSE "built_s2"

\* The Airflow connections: conn_id -> password.
Password(conn_id) == IF conn_id = "cavatica" THEN "tokA" ELSE "tokB"

\* The endpoint argument's default value.
TasksEndpoint == <<"/","t","a","s","k","s","/">>

\* The arguments DAGs construct sensors with: task id, connection id and
\* endpoint (cavatica_headers is drawn separately, from HeaderArgs).
SensorArgs ==
  { [task |-> <<"t","1">>, conn |-> "cavatica", endpoint |-> TasksEndpoint],
    [task |-> <<"t","2">>, conn |-> "cavatica_dev",
     endpoint |-> <<"/","t","a","s","k","s">>] }

CallerHeaders ==
  <<Item("Content-Type", Str("application/json")),
    Item("X-SBG-Auth-Token", Str("tokU"))>>

\* What the remote may answer to one GET.
StatusStrings ==
  { <<"q","u","e","u","e","d">>, RUNNING,
    COMPLETED, <<"C","o","m","p","l","e","t","e","d">>,
    <<"p","e","n","d","i","n","g">>, ABORTED, <<"F","a","i","l","e","d">>,
    <<"b","a","n","a","n","a">>, <<>> }

Response(h, b, st) == [http |-> h, body |-> b, status |-> st]

Responses ==
  { Response("error", "none", <<>>),
    Response("ok", "not_json", <<>>),
    Response("ok", "no_status", <<>>),
    Response("ok", "status_not_str", <<>>) }
  \cup { Response("ok", "status", st) : st \in StatusStrings }

Creds == {"ok", "fail"}

(* ----------------------------- outcomes -------------------------------- *)

Return(v) == [ret |-> v, exc |-> "none", msg |-> ""]
Raise(e, m) == [ret |-> "none", exc |-> e, msg |-> m]

(* ------------------------- CavaticaTaskSensor -------------------------- *)

NoSensor ==
  [pc |-> "new", cavatica_task_id |-> <<>>, cavatica_conn_id |-> "",
   cavatica_headers |-> "none", endpoint |-> <<>>]

\* The slash appended whether the endpoint ends with one or not.
normalise_endpoint_appends(endpoint) == endpoint \o <<"/">>

\* self.endpoint = endpoint if endpoint.endswith('/') else f'{endpoint}/'
normalise_endpoint(endpoint) ==
  IF endswith(endpoint, "/") THEN endpoint ELSE endpoint \o <<"/">>

\* CavaticaTaskSensor.__init__
sensor_init(cavatica_task_id, cavatica_conn_id, cavatica_headers, endpoint) ==
  [pc |-> "waiting",
   cavatica_task_id |-> cavatica_task_id,
   cavatica_conn_id |-> cavatica_conn_id,
   cavatica_headers |-> cavatica_headers,
   endpoint |-> normalise_endpoint(endpoint)]

\* CavaticaTaskSensor._build_headers: the dict, or the exception it raises
build_headers(cavatica_conn_id, cred) ==
  IF cred = "ok"
  THEN [raised |-> FALSE,
        value |-> <<Item("Content-Type", Str("application/json")),
                    Item("X-SBG-Auth-Token", Str(Password(cavatica_conn_id)))>>]
  ELSE [raised |-> TRUE, value |-> <<>>]

\* response.json()["status"].upper() inside the try
parse_status(resp) ==
  IF resp.body = "status"
  THEN [raised |-> FALSE, status |-> upper(resp.status)]
  ELSE [raised |-> TRUE, status |-> <<>>]

\* An unknown status taken for a job still running.
resolve_status_unknown_waits(status) ==
  IF status \in {QUEUED, RUNNING} THEN Return("False")
  ELSE IF status = COMPLETED THEN Return("True")
  ELSE IF status = PENDING THEN Raise("AirflowException", "pending")
  ELSE IF status \in {ABORTED, FAILED} THEN Raise("AirflowException", "did_not_finish")
  ELSE Return("False")

\* RUNNING left out of the still-running statuses.
resolve_status_running_unhandled(status) ==
  IF status = QUEUED THEN Return("False")
  ELSE IF status = COMPLETED THEN Return("True")
  ELSE IF status = PENDING THEN Raise("AirflowException", "pending")
  ELSE IF status \in {ABORTED, FAILED} THEN Raise("AirflowException", "did_not_finish")
  ELSE Raise("AirflowException", "unhandled")

\* the if/elif chain on the upper-cased status
resolve_status(status) ==
  IF status \in {QUEUED, RUNNING} THEN Return("False")
  ELSE IF status = COMPLETED THEN Return("True")
  ELSE IF status = PENDING THEN Raise("AirflowException", "pending")
  ELSE IF status \in {ABORTED, FAILED} THEN Raise("AirflowException", "did_not_finish")
  ELSE Raise("AirflowException", "unhandled")

Request(method, endpoint, headers) ==
  [method |-> method, endpoint |-> endpoint, headers |-> headers]

\* The GET issued before the headers are built.
poke_get_first(self, headers, cred, resp) ==
  LET need == ~truthy(headers)
      b == build_headers(self.cavatica_conn_id, cred)
      get == Request("GET", self.endpoint \o self.cavatica_task_id, headers)
  IN  IF need /\ b.raised
      THEN [built |-> <<>>, requests |-> <<get>>,
            outcome |-> Raise("AirflowException", "headers")]
      ELSE [built |-> IF need THEN <<b.value>> ELSE <<>>,
            requests |-> <<get>>,
            outcome |-> IF resp.http # "ok" THEN Raise("HTTPError", "status")
                        ELSE IF parse_status(resp).raised
                        THEN Raise("AirflowException", "parse")
                        ELSE resolve_status(parse_status(resp).status)]

\* A body that cannot be parsed taken for a job still running.
poke_parse_error_waits(self, headers, cred, resp) ==
  LET need == ~truthy(headers)
      b == build_headers(self.cavatica_conn_id, cred)
  IN  IF need /\ b.raised
      THEN [built |-> <<>>, requests |-> <<>>,
            outcome |-> Raise("AirflowException", "headers")]
      ELSE [built |-> IF need THEN <<b.value>> ELSE <<>>,
            requests |-> <<Request("GET", self.endpoint \o self.cavatica_task_id,
                                   IF need THEN b.value ELSE headers)>>,
            outcome |-> IF resp.http # "ok" THEN Raise("HTTPError", "status")
                        ELSE IF parse_status(resp).raised THEN Return("False")
                        ELSE resolve_status(parse_status(resp).status)]

\* The headers built on every poll, whatever the sensor holds.
poke_builds_every_poll(self, headers, cred, resp) ==
  LET value == build_headers(self.cavatica_conn_id, "ok").value
  IN  IF cred = "fail"
      THEN [built |-> <<>>, requests |-> <<>>,
            outcome |-> Raise("AirflowException", "headers")]
      ELSE [built |-> <<value>>,
            requests |-> <<Request("GET", self.endpoint \o self.cavatica_task_id,
                                   value)>>,
            outcome |-> IF resp.http # "ok" THEN Raise("HTTPError", "status")
                        ELSE IF parse_status(resp).raised
                        THEN Raise("AirflowException", "parse")
                        ELSE resolve_status(parse_status(resp).status)]

\* CavaticaTaskSensor.poke: what one call does, given the sensor's fields,
\* the dict its cavatica_headers refers to, the outcome of the credential
\* lookup and the answer of the remote to the GET.
\*   built    the dict assigned to self.cavatica_headers (at most one)
\*   requests the HTTP calls issued
\*   outcome  the value returned or the exception raised
poke(self, headers, cred, resp) ==
  LET need == ~truthy(headers)
      b == build_headers(self.cavatica_conn_id, cred)
  IN  IF need /\ b.raised
      THEN [built |-> <<>>, requests |-> <<>>,
            outcome |-> Raise("AirflowException", "headers")]
      ELSE
        LET h == IF need THEN b.value ELSE headers
            get == Request("GET", self.endpoint \o self.cavatica_task_id, h)
            p == parse_status(resp)
            out == IF resp.http # "ok" THEN Raise("HTTPError", "status")
                   ELSE IF p.raised THEN Raise("AirflowException", "parse")
                   ELSE resolve_status(p.status)
        IN  [built |-> IF need THEN <<b.value>> ELSE <<>>,
             requests |-> <<get>>,
             outcome |-> out]

TotalPolls == Len(polls["s1"]) + Len(polls["s2"])

HeaderArgs == {"sensor_default", "caller_empty", "caller_headers"}

\* A DAG constructs a sensor; an omitted cavatica_headers is the default
\* argument's dict object, an omitted endpoint is '/tasks/'.
SensorInit(s) ==
  /\ sensor[s].pc = "new"
  /\ \E a \in SensorArgs, h \in HeaderArgs :
       sensor' = [sensor EXCEPT ![s] = sensor_init(a.task, a.conn, h, a.endpoint)]
  /\ UNCHANGED <<heap, polls, calls, exportOp, importOp>>

\* The built headers written into the dict the sensor already holds
\* (self.cavatica_headers.update(...)) instead of a new dict being bound.
Poke_updates_in_place(s) ==
  /\ sensor[s].pc = "waiting"
  /\ TotalPolls < MaxPolls
  /\ \E resp \in Responses :
     \E cred \in IF truthy(heap[sensor[s].cavatica_headers]) THEN {"unused"} ELSE Creds :
       \E r \in {poke(sensor[s], heap[sensor[s].cavatica_headers], cred, resp)} :
         /\ heap' = IF Len(r.built) > 0
                    THEN [heap EXCEPT ![sensor[s].cavatica_headers] = r.built[1]]
                    ELSE heap
         /\ sensor' = [sensor EXCEPT
              ![s].pc = IF r.outcome.ret = "False" THEN "waiting"
                        ELSE IF r.outcome.ret = "True" THEN "succeeded"
                        ELSE "failed"]
         /\ calls' = [calls EXCEPT ![s] = @ \o r.requests]
         /\ polls' = [polls EXCEPT ![s] = Append(@,
              [cred |-> cred,
               resp |-> IF Len(r.requests) > 0 THEN resp
                        ELSE Response("none", "none", <<>>),
               gets |-> Len(r.requests),
               outcome |-> r.outcome])]
  /\ UNCHANGED <<exportOp, importOp>>

\* The host scheduler calls poke: again after False, never after True or
\* an exception.
Poke(s) ==
  /\ sensor[s].pc = "waiting"
  /\ TotalPolls < MaxPolls
  /\ \E resp \in Responses :
     \E cred \in IF truthy(heap[sensor[s].cavatica_headers]) THEN {"unused"} ELSE Creds :
       \E r \in {poke(sensor[s], heap[sensor[s].cavatica_headers], cred, resp)} :
         /\ heap' = IF Len(r.built) > 0
                    THEN [id \in DOMAIN heap \cup {BuiltId(s)} |->
                            IF id = BuiltId(s) THEN r.built[1] ELSE heap[id]]
                    ELSE heap
         /\ sensor' = [sensor EXCEPT
              ![s].cavatica_headers =
                 IF Len(r.built) > 0 THEN BuiltId(s) ELSE @,
              ![s].pc = IF r.outcome.ret = "False" THEN "waiting"
                        ELSE IF r.outcome.ret = "True" THEN "succeeded"
                        ELSE "failed"]
         /\ calls' = [calls EXCEPT ![s] = @ \o r.requests]
         /\ polls' = [polls EXCEPT ![s] = Append(@,
              [cred |-> cred,
               resp |-> IF Len(r.requests) > 0 THEN resp
                        ELSE Response("none", "none", <<>>),
               gets |-> Len(r.requests),
               outcome |-> r.outcome])]
  /\ UNCHANGED <<exportOp, importOp>>

(* --------------------- the storage operators --------------------------- *)

Exports == {"e1"}
Imports == {"i1"}

\* The names execute() can load: its parameters and the names it assigns
\* (the same in both operators, but for the two named after the job type).
ExecuteLocals ==
  {"self", "context", "payload", "key", "api", "response",
   "export_task_id", "wait_for_export_success",
   "import_task_id", "wait_for_import_success"}

\* The names both operator modules bind: their imports and their class.
ModuleGlobals ==
  {"b64decode", "logging", "AirflowException", "BaseHook", "HttpHook",
   "BaseOperator", "apply_defaults", "CavaticaTaskSensor",
   "CavaticaStorageExportOperator", "CavaticaStorageImportOperator"}

\* How the remote would answer the calls of one execute(): the POST, the
\* status GETs of the job it created, and the GET of the import's result.
RemotePlans ==
  { [post |-> "ok", id |-> <<"j","o","b","-","1">>, job |-> "completes",
     result |-> "file-9"],
    [post |-> "ok", id |-> <<"j","o","b","-","2">>, job |-> "fails",
     result |-> "none"],
    [post |-> "ok", id |-> <<"j","o","b","-","1">>, job |-> "runs_forever",
     result |-> "none"],
    [post |-> "error", id |-> <<>>, job |-> "none", result |-> "none"] }

NoPlan == [post |-> "none", id |-> <<>>, job |-> "none", result |-> "none"]

NoOutcome == [ret |-> "none", exc |-> "none", msg |-> ""]

\* The optional_fields dicts callers pass (the ids of heap objects).
OptionalArgs == {"caller_empty", "opt_overwrite", "opt_source", "opt_mixed"}

OptOverwrite == <<Item("overwrite", Bool("True"))>>

OptSource == <<Item("source", Str("X"))>>

OptMixed ==
  <<Item("sse_algorithm", Str("AES256")),
    Item("destination", Dict(<<Item("volume", Str("elsewhere"))>>)),
    Item("overwrite", Bool("True"))>>

\* Optional fields added only where the payload has no such key.
RECURSIVE overlay_keeps_required(_, _, _)
overlay_keeps_required(payload, optional_fields, i) ==
  IF i > Len(optional_fields) THEN payload
  ELSE overlay_keeps_required(
         IF HasKey(payload, optional_fields[i].k) THEN payload
         ELSE Append(payload, optional_fields[i]),
         optional_fields, i + 1)

\* for key in optional_fields.keys(): payload[key] = optional_fields[key]
RECURSIVE overlay(_, _, _)
overlay(payload, optional_fields, i) ==
  IF i > Len(optional_fields) THEN payload
  ELSE overlay(SetItem(payload, optional_fields[i].k,
                       Get(optional_fields, optional_fields[i].k)),
               optional_fields, i + 1)

\* CavaticaStorageExportOperator.execute, the payload it assembles
export_payload(self, optional_fields) ==
  LET payload ==
        <<Item("source", Dict(<<Item("file", Str(self.source_file_uri))>>)),
          Item("destination",
               Dict(<<Item("volume", Str(self.destination_volume)),
                      Item("location", Str(self.destination_location))>>))>>
  IN  IF truthy(optional_fields) THEN overlay(payload, optional_fields, 1)
      ELSE payload

\* CavaticaStorageImportOperator.execute, the payload it assembles
import_payload(self, optional_fields) ==
  LET payload ==
        <<Item("source",
               Dict(<<Item("volume", Str(self.source_volume)),
                      Item("location", Str(self.source_location))>>)),
          Item("destination",
               Dict(<<Item("parent", Str(self.destination_parent_uri))>>))>>
  IN  IF truthy(optional_fields) THEN overlay(payload, optional_fields, 1)
      ELSE payload

NoExport ==
  [pc |-> "new", cavatica_conn_id |-> "", cavatica_headers |-> "none",
   source_file_uri |-> "", destination_volume |-> "",
   destination_location |-> "", optional_fields |-> "none",
   payload |-> <<>>, env |-> NoPlan, outcome |-> NoOutcome]

NoImport ==
  [pc |-> "new", cavatica_conn_id |-> "", cavatica_headers |-> "none",
   destination_parent_uri |-> "", source_volume |-> "",
   source_location |-> "", optional_fields |-> "none",
   payload |-> <<>>, env |-> NoPlan, outcome |-> NoOutcome]

ExportArgs ==
  { [conn |-> "cavatica", headers |-> "caller_headers",
     file |-> "610aa71f", volume |-> "volume/folder",
     location |-> "/bams/example.bam"],
    [conn |-> "cavatica_dev", headers |-> "caller_empty",
     file |-> "5f0e11aa", volume |-> "archive",
     location |-> "/crams/other.cram"] }

ImportArgs ==
  { [conn |-> "cavatica", headers |-> "caller_headers",
     parent |-> "610aa71f", volume |-> "volume/folder",
     location |-> "/bams/example.bam"],
    [conn |-> "cavatica_dev", headers |-> "caller_empty",
     parent |-> "5f0e11aa", volume |-> "archive",
     location |-> "/crams/other.cram"] }

\* CavaticaStorageExportOperator.__init__; an omitted optional_fields is
\* the default argument's dict object.
ExportInit(o) ==
  /\ exportOp[o].pc = "new"
  /\ \E a \in ExportArgs, f \in OptionalArgs \cup {"export_default"} :
       exportOp' = [exportOp EXCEPT ![o] =
         [NoExport EXCEPT
            !.pc = "constructed",
            !.cavatica_conn_id = a.conn,
            !.cavatica_headers = a.headers,
            !.source_file_uri = a.file,
            !.destination_volume = a.volume,
            !.destination_location = a.location,
            !.optional_fields = f]]
  /\ UNCHANGED <<heap, sensor, polls, calls, importOp>>

\* CavaticaStorageImportOperator.__init__
ImportInit(o) ==
  /\ importOp[o].pc = "new"
  /\ \E a \in ImportArgs, f \in OptionalArgs \cup {"import_default"} :
       importOp' = [importOp EXCEPT ![o] =
         [NoImport EXCEPT
            !.pc = "constructed",
            !.cavatica_conn_id = a.conn,
            !.cavatica_headers = a.headers,
            !.destination_parent_uri = a.parent,
            !.source_volume = a.volume,
            !.source_location = a.location,
            !.optional_fields = f]]
  /\ UNCHANGED <<heap, sensor, polls, calls, exportOp>>

\* CavaticaStorageExportOperator.execute.  The payload is assembled and the
\* HttpHook made; then the arguments of api.run are evaluated, the first of
\* them the name `endpoint`, which execute() does not assign and the module
\* does not bind (the class attribute is self.endpoint): NameError is
\* raised before the call, and nothing after that line runs.
ExportExecute(o) ==
  /\ exportOp[o].pc = "constructed"
  /\ "endpoint" \notin ExecuteLocals \cup ModuleGlobals
  /\ \E plan \in RemotePlans :
       exportOp' = [exportOp EXCEPT
         ![o].pc = "done",
         ![o].env = plan,
         ![o].payload = export_payload(exportOp[o], heap[exportOp[o].optional_fields]),
         ![o].outcome = Raise("NameError", "endpoint")]
  /\ UNCHANGED <<heap, sensor, polls, calls, importOp>>

\* CavaticaStorageImportOperator.execute: as the export's, with the same
\* unbound name `endpoint` in the arguments of the POST.
ImportExecute(o) ==
  /\ importOp[o].pc = "constructed"
  /\ "endpoint" \notin ExecuteLocals \cup ModuleGlobals
  /\ \E plan \in RemotePlans :
       importOp' = [importOp EXCEPT
         ![o].pc = "done",
         ![o].env = plan,
         ![o].payload = import_payload(importOp[o], heap[importOp[o].optional_fields]),
         ![o].outcome = Raise("NameError", "endpoint")]
  /\ UNCHANGED <<heap, sensor, polls, calls, exportOp>>

(* ------------------------------ the system ----------------------------- *)

Init ==
  /\ heap = [id \in {"sensor_default", "export_default", "import_default",
                     "caller_empty", "caller_headers",
                     "opt_overwrite", "opt_source", "opt_mixed"} |->
               CASE id = "caller_headers" -> CallerHeaders
                 [] id = "opt_overwrite" -> OptOverwrite
                 [] id = "opt_source" -> OptSource
                 [] id = "opt_mixed" -> OptMixed
                 [] OTHER -> <<>>]
  /\ sensor = [s \in Sensors |-> NoSensor]
  /\ polls = [s \in Sensors |-> <<>>]
  /\ calls = [s \in Sensors \cup Exports \cup Imports |-> <<>>]
  /\ exportOp = [o \in Exports |-> NoExport]
  /\ importOp = [o \in Imports |-> NoImport]

SensorNext == \E s \in Sensors : SensorInit(s) \/ Poke(s)

OperatorNext ==
  \/ \E o \in Exports : ExportInit(o) \/ ExportExecute(o)
  \/ \E o \in Imports : ImportInit(o) \/ ImportExecute(o)

Next == SensorNext \/ OperatorNext

\* Sensors that DAGs construct and the host scheduler pokes.
SensorSpec == Init /\ [][SensorNext]_vars

\* Operators that DAGs construct and the host executes.
OperatorSpec == Init /\ [][OperatorNext]_vars

\* All instances together.  Sensors and operators share only the heap,
\* which no operator action changes, so what holds of the sensors under
\* SensorSpec and of the operators under OperatorSpec holds under Spec.
Spec == Init /\ [][Next]_vars

(* ------------------- instances running side by side -------------------- *)

\* The instances a DAG run holds once its DAG file is parsed: every
\* constructor has run (the states SensorInit, ExportInit and ImportInit
\* lead to), each sensor without headers or with the caller's, the export
\* with the caller's empty headers and without optional fields or with the
\* caller's, the import with the caller's headers, which a sensor may hold
\* too, and without optional fields.
SharingInit ==
  /\ heap = [id \in {"sensor_default", "export_default", "import_default",
                     "caller_empty", "caller_headers",
                     "opt_overwrite", "opt_source", "opt_mixed"} |->
               CASE id = "caller_headers" -> CallerHeaders
                 [] id = "opt_overwrite" -> OptOverwrite
                 [] id = "opt_source" -> OptSource
                 [] id = "opt_mixed" -> OptMixed
                 [] OTHER -> <<>>]
  /\ \E h \in [Sensors -> {"sensor_default", "caller_headers"}] :
       sensor = [s \in Sensors |->
         LET a == CHOOSE a \in SensorArgs :
                    a.conn = IF s = "s1" THEN "cavatica" ELSE "cavatica_dev"
         IN  sensor_init(a.task, a.conn, h[s], a.endpoint)]
  /\ polls = [s \in Sensors |-> <<>>]
  /\ calls = [s \in Sensors \cup Exports \cup Imports |-> <<>>]
  /\ \E f \in {"export_default", "opt_mixed"} :
       exportOp = [o \in Exports |->
         LET a == CHOOSE a \in ExportArgs : a.headers = "caller_empty"
         IN
         [NoExport EXCEPT
            !.pc = "constructed",
            !.cavatica_conn_id = a.conn,
            !.cavatica_headers = a.headers,
            !.source_file_uri = a.file,
            !.destination_volume = a.volume,
            !.destination_location = a.location,
            !.optional_fields = f]]
  /\ importOp = [o \in Imports |->
         LET a == CHOOSE a \in ImportArgs : a.headers = "caller_headers"
         IN
         [NoImport EXCEPT
            !.pc = "constructed",
            !.cavatica_conn_id = a.conn,
            !.cavatica_headers = a.headers,
            !.destination_parent_uri = a.parent,
            !.source_volume = a.volume,
            !.source_location = a.location,
            !.optional_fields = "import_default"]]

\* The operators whose execute() has ended.
Executed ==
  Cardinality({o \in Exports : exportOp[o].pc = "done"})
  + Cardinality({o \in Imports : importOp[o].pc = "done"})

\* The host runs the instances in any order, one poke or execute at a time.
SharingNext ==
  /\ TotalPolls + Executed < MaxPolls
  /\ \/ \E s \in Sensors : Poke(s)
     \/ \E o \in Exports : ExportExecute(o)
     \/ \E o \in Imports : ImportExecute(o)

\* Constructed sensors and operators, poked and executed in any order.
SharingSpec == SharingInit /\ [][SharingNext]_vars

(* ------------------------------ properties ----------------------------- *)

\* Two characters that are one letter, in either case.
SameLetter(a, b) ==
  a = b \/ \E i \in DOMAIN LowerCase : {a, b} = {LowerCase[i], UpperCase[i]}

\* st is word, in any letter case.
AnyCaseOf(st, word) ==
  Len(st) = Len(word) /\ \A i \in DOMAIN st : SameLetter(st[i], word[i])

\* The poll's GET succeeded and its body carried a status string.
GotStatus(p) == p.resp.http = "ok" /\ p.resp.body = "status"

StillRunning(p) ==
  GotStatus(p) /\ (AnyCaseOf(p.resp.status, QUEUED) \/ AnyCaseOf(p.resp.status, RUNNING))

Raised(out) == out.ret = "none" /\ out.exc # "none"

\* C1: a poll whose GET succeeds with a status string returns False for
\* QUEUED and RUNNING, returns True for COMPLETED, and raises a fatal error
\* for PENDING, ABORTED and FAILED, in any letter case; two polls whose
\* statuses differ only in letter case have the same outcome.
C1_StatusDecidesOutcome ==
  /\ \A s \in Sensors : \A i \in DOMAIN polls[s] :
       LET p == polls[s][i] IN
       GotStatus(p) =>
         /\ StillRunning(p) => p.outcome = Return("False")
         /\ AnyCaseOf(p.resp.status, COMPLETED) => p.outcome = Return("True")
         /\ (\E w \in {PENDING, ABORTED, FAILED} : AnyCaseOf(p.resp.status, w))
              => Raised(p.outcome) /\ p.outcome.exc = "AirflowException"
  /\ \A s, t \in Sensors : \A i \in DOMAIN polls[s], j \in DOMAIN polls[t] :
       LET p == polls[s][i]
           q == polls[t][j] IN
       (GotStatus(p) /\ GotStatus(q) /\ AnyCaseOf(p.resp.status, q.resp.status))
         => p.outcome = q.outcome

C1_Witness ==
  /\ \E s \in Sensors : \E i \in DOMAIN polls[s] :
       /\ polls[s][i].resp.status = <<"q","u","e","u","e","d">>
       /\ polls[s][i].outcome.ret = "False"
  /\ \E s \in Sensors : \E i \in DOMAIN polls[s] :
       /\ polls[s][i].resp.status = <<"C","o","m","p","l","e","t","e","d">>
       /\ polls[s][i].outcome.ret = "True"
  /\ \E s \in Sensors : \E i \in DOMAIN polls[s] :
       /\ polls[s][i].resp.status = <<"F","a","i","l","e","d">>
       /\ polls[s][i].outcome.exc = "AirflowException"

KnownStatus(st) ==
  \E w \in {QUEUED, RUNNING, COMPLETED, PENDING, ABORTED, FAILED} : AnyCaseOf(st, w)

\* C2: a poll whose status is none of the six known ones raises the same
\* fatal error as the known failures; it returns neither False nor True.
C2_UnknownStatusIsFatal ==
  \A s \in Sensors : \A i \in DOMAIN polls[s] :
    LET p == polls[s][i] IN
    (GotStatus(p) /\ ~KnownStatus(p.resp.status)) =>
      /\ Raised(p.outcome)
      /\ p.outcome.exc = "AirflowException"
      /\ sensor[s].pc = "failed"
      /\ i = Len(polls[s])

C2_Witness ==
  \E s \in Sensors : \E i \in DOMAIN polls[s] :
    /\ GotStatus(polls[s][i])
    /\ polls[s][i].resp.status = <<"b","a","n","a","n","a">>
    /\ polls[s][i].outcome.msg = "unhandled"

\* C3: while the statuses a sensor's polls got so far are all QUEUED or
\* RUNNING, each of those polls returned False (none returned True or
\* raised) and the sensor is polled again; the poll that then gets
\* COMPLETED returns True, and it is the sensor's last.
C3_RunningThenCompleted ==
  \A s \in Sensors : \A n \in DOMAIN polls[s] :
    (\A i \in 1..(n - 1) : StillRunning(polls[s][i])) =>
      /\ \A i \in 1..(n - 1) : polls[s][i].outcome = Return("False")
      /\ StillRunning(polls[s][n]) =>
           /\ polls[s][n].outcome = Return("False")
           /\ n = Len(polls[s]) => sensor[s].pc = "waiting"
      /\ (GotStatus(polls[s][n]) /\ AnyCaseOf(polls[s][n].resp.status, COMPLETED)) =>
           /\ polls[s][n].outcome = Return("True")
           /\ n = Len(polls[s])
           /\ sensor[s].pc = "succeeded"

C3_Witness ==
  \E s \in Sensors :
    /\ Len(polls[s]) = 3
    /\ polls[s][1].resp.status = <<"q","u","e","u","e","d">>
    /\ polls[s][2].resp.status = RUNNING
    /\ polls[s][3].resp.status = COMPLETED
    /\ <<polls[s][1].outcome.ret, polls[s][2].outcome.ret, polls[s][3].outcome.ret>>
         = <<"False", "False", "True">>

\* The poller's fatal error for a job that did not finish.
JobFailed(out) == Raised(out) /\ out.exc = "AirflowException"

\* C4 as claimed: an export whose POST the remote accepts and whose job
\* the remote then reports failed ends by raising the poller's fatal
\* job-failure error, its last HTTP call being the failing status GET.
C4_ExportRaisesJobFailure ==
  \A o \in Exports :
    (exportOp[o].pc = "done" /\ exportOp[o].env.post = "ok"
       /\ exportOp[o].env.job = "fails")
    => /\ JobFailed(exportOp[o].outcome)
       /\ Len(calls[o]) >= 2
       /\ calls[o][1].method = "POST"
       /\ calls[o][Len(calls[o])].method = "GET"

\* C5 as claimed: an import whose POST the remote accepts, whose job the
\* remote reports completed and whose result GET yields result.id = R
\* returns R.
C5_ImportReturnsResultId ==
  \A o \in Imports :
    (importOp[o].pc = "done" /\ importOp[o].env.post = "ok"
       /\ importOp[o].env.job = "completes")
    => importOp[o].outcome = Return(importOp[o].env.result)

\* The class attribute `endpoint` of each operator.
StorageExports == <<"/","s","t","o","r","a","g","e","/","e","x","p","o","r","t","s">>
StorageImports == <<"/","s","t","o","r","a","g","e","/","i","m","p","o","r","t","s">>

\* The status GETs of operator o go to prefix/<id of the job the POST made>.
PollsJobAt(o, prefix, id) ==
  /\ \E i \in DOMAIN calls[o] : calls[o][i].method = "GET"
  /\ \A i \in DOMAIN calls[o] :
       calls[o][i].method = "GET" => calls[o][i].endpoint = prefix \o <<"/">> \o id

\* C6 as claimed: after a POST the remote accepts, the operator's poller
\* issues its status GETs to /storage/exports/<id> (export) or
\* /storage/imports/<id> (import).
C6_PollerBoundToJobEndpoint ==
  /\ \A o \in Exports :
       (exportOp[o].pc = "done" /\ exportOp[o].env.post = "ok")
         => PollsJobAt(o, StorageExports, exportOp[o].env.id)
  /\ \A o \in Imports :
       (importOp[o].pc = "done" /\ importOp[o].env.post = "ok")
         => PollsJobAt(o, StorageImports, importOp[o].env.id)

\* The payload holds no key twice.
NoDuplicateKey(d) == \A i, j \in DOMAIN d : d[i].k = d[j].k => i = j

\* payload is required overlaid with optional_fields: its keys are those of
\* both, an optional key has the optional value, a required key that is
\* not optional keeps its built value.
IsOverlay(payload, required, optional_fields) ==
  /\ NoDuplicateKey(payload)
  /\ Keys(payload) = Keys(required) \cup Keys(optional_fields)
  /\ \A i \in DOMAIN payload :
       IF \E j \in DOMAIN optional_fields : optional_fields[j].k = payload[i].k
       THEN \E j \in DOMAIN optional_fields : optional_fields[j] = payload[i]
       ELSE \E j \in DOMAIN required : required[j] = payload[i]

\* C7: the payload an execute() assembles is the required source and
\* destination entries overlaid, shallowly, with optional_fields; with
\* {overwrite: True} it has exactly the keys source, destination, overwrite.
C7_PayloadIsOverlay ==
  /\ \A o \in Exports :
       exportOp[o].pc = "done" =>
         LET self == exportOp[o]
             opt == heap[self.optional_fields] IN
         /\ IsOverlay(self.payload,
              <<Item("source", Dict(<<Item("file", Str(self.source_file_uri))>>)),
                Item("destination",
                     Dict(<<Item("volume", Str(self.destination_volume)),
                            Item("location", Str(self.destination_location))>>))>>,
              opt)
         /\ opt = OptOverwrite =>
              /\ Len(self.payload) = 3
              /\ Keys(self.payload) = {"source", "destination", "overwrite"}
  /\ \A o \in Imports :
       importOp[o].pc = "done" =>
         LET self == importOp[o]
             opt == heap[self.optional_fields] IN
         /\ IsOverlay(self.payload,
              <<Item("source",
                     Dict(<<Item("volume", Str(self.source_volume)),
                            Item("location", Str(self.source_location))>>)),
                Item("destination",
                     Dict(<<Item("parent", Str(self.destination_parent_uri))>>))>>,
              opt)
         /\ opt = OptOverwrite =>
              /\ Len(self.payload) = 3
              /\ Keys(self.payload) = {"source", "destination", "overwrite"}

C7_Witness ==
  /\ \E o \in Exports :
       /\ exportOp[o].pc = "done"
       /\ exportOp[o].optional_fields = "opt_source"
       /\ \E i \in DOMAIN exportOp[o].payload :
            exportOp[o].payload[i] = Item("source", Str("X"))
  /\ \E o \in Imports :
       /\ importOp[o].pc = "done"
       /\ importOp[o].optional_fields = "opt_overwrite"
       /\ Len(importOp[o].payload) = 3

\* C8: a poll of a sensor without headers whose credential lookup fails
\* raises the header-build error and issues no HTTP call.
C8_NoCallWhenHeaderBuildFails ==
  [][\A s \in Sensors :
       ( /\ Len(polls'[s]) = Len(polls[s]) + 1
         /\ polls'[s][Len(polls'[s])].cred = "fail" )
       => /\ ~truthy(heap[sensor[s].cavatica_headers])
          /\ calls'[s] = calls[s]
          /\ polls'[s][Len(polls'[s])].gets = 0
          /\ polls'[s][Len(polls'[s])].outcome = Raise("AirflowException", "headers")
          /\ sensor'[s].pc = "failed"]_vars

C8_Witness ==
  \E s \in Sensors :
    /\ Len(polls[s]) = 1
    /\ polls[s][1].cred = "fail"
    /\ polls[s][1].outcome.msg = "headers"
    /\ calls[s] = <<>>
    /\ sensor[s].pc = "failed"

RECURSIVE SumGets(_, _)
SumGets(ps, n) == IF n = 0 THEN 0 ELSE ps[n].gets + SumGets(ps, n - 1)

\* C9: a poll whose GET fails, whose body is not JSON or whose body has no
\* status string raises; a poll issues at most one GET; a poll returns
\* False only for a QUEUED or RUNNING status, and True only for COMPLETED.
C9_ErrorsAreFatal ==
  \A s \in Sensors :
    /\ Len(calls[s]) = SumGets(polls[s], Len(polls[s]))
    /\ \A i \in DOMAIN polls[s] :
         LET p == polls[s][i] IN
         /\ p.gets <= 1
         /\ (p.gets = 1 /\ ~GotStatus(p)) => Raised(p.outcome)
         /\ p.gets = 0 => Raised(p.outcome)
         /\ p.outcome.ret = "False" => StillRunning(p)
         /\ p.outcome.ret = "True" =>
              GotStatus(p) /\ AnyCaseOf(p.resp.status, COMPLETED)
         /\ Raised(p.outcome) => (i = Len(polls[s]) /\ sensor[s].pc = "failed")

C9_Witness ==
  /\ \E s \in Sensors : \E i \in DOMAIN polls[s] :
       /\ polls[s][i].resp.http = "error"
       /\ polls[s][i].gets = 1
       /\ Raised(polls[s][i].outcome)
  /\ \E s \in Sensors : \E i \in DOMAIN polls[s] :
       /\ polls[s][i].resp.body \in {"not_json", "no_status", "status_not_str"}
       /\ polls[s][i].gets = 1
       /\ Raised(polls[s][i].outcome)

\* C10 as claimed: when the remote accepts the POST and reports the job
\* QUEUED/RUNNING forever, execute() ends with the host's sensor timeout,
\* after status GETs made by a poller.
C10_WaitEndsInTimeout ==
  /\ \A o \in Exports :
       (exportOp[o].pc = "done" /\ exportOp[o].env.job = "runs_forever")
         => /\ exportOp[o].outcome.exc = "AirflowSensorTimeout"
            /\ \E i \in DOMAIN calls[o] : calls[o][i].method = "GET"
  /\ \A o \in Imports :
       (importOp[o].pc = "done" /\ importOp[o].env.job = "runs_forever")
         => /\ importOp[o].outcome.exc = "AirflowSensorTimeout"
            /\ \E i \in DOMAIN calls[o] : calls[o][i].method = "GET"

\* C11 as claimed: the export's execute() returns True when the remote
\* accepts the POST and reports the job completed, and never ends normally
\* with another value.
C11_ExportReturnsTrue ==
  \A o \in Exports :
    exportOp[o].pc = "done" =>
      /\ exportOp[o].outcome.ret \in {"none", "True"}
      /\ (exportOp[o].env.post = "ok" /\ exportOp[o].env.job = "completes")
           => exportOp[o].outcome = Return("True")

Posts(o) == {i \in DOMAIN calls[o] : calls[o][i].method = "POST"}

\* C12 as claimed: an execute() that has ended issued exactly one POST,
\* before any GET; an import issued its result GET, last and after a
\* status GET, exactly when the remote accepted the POST and reported the
\* job completed.
C12_OnePostBeforeEveryGet ==
  /\ \A o \in Exports \cup Imports :
       (IF o \in Exports THEN exportOp[o].pc ELSE importOp[o].pc) = "done" =>
         /\ Cardinality(Posts(o)) = 1
         /\ calls[o][1].method = "POST"
  /\ \A o \in Imports :
       (importOp[o].pc = "done" /\ importOp[o].env.post = "ok"
          /\ importOp[o].env.job = "completes")
       => /\ Len(calls[o]) >= 3
          /\ calls[o][Len(calls[o])] =
               Request("GET", StorageImports \o <<"/">> \o importOp[o].env.id,
                       heap[importOp[o].cavatica_headers])

\* The header maps an operator passes down to its sensor (line 102 of both
\* operators): a map the caller gave the operator, possibly empty.
PassedHeaders == {"caller_empty", "caller_headers"}

\* C13 as claimed: a poller given the operator's header map, whatever it
\* is, an empty map included, issues every status GET with exactly that
\* map and never replaces it by headers built from the connection.
C13_PollerKeepsGivenHeaders ==
  [][\A s \in Sensors :
       ( /\ sensor[s].cavatica_headers \in PassedHeaders
         /\ Len(calls'[s]) = Len(calls[s]) + 1 )
       => /\ calls'[s][Len(calls'[s])].headers = heap[sensor[s].cavatica_headers]
          /\ sensor'[s].cavatica_headers = sensor[s].cavatica_headers]_vars

\* C14: a poll leaves the sensor's task id, connection id and endpoint as
\* they are; it replaces the header map only on the sensor's first poll and
\* only when the map the sensor holds is empty (none was supplied), by a
\* non-empty map built from the connection; a non-empty map, supplied or
\* built, is neither replaced nor changed, so headers are built at most once.
C14_HeadersBuiltOnceFieldsFixed ==
  [][\A s \in Sensors :
       sensor[s].pc # "new" =>
         /\ sensor'[s].cavatica_task_id = sensor[s].cavatica_task_id
         /\ sensor'[s].cavatica_conn_id = sensor[s].cavatica_conn_id
         /\ sensor'[s].endpoint = sensor[s].endpoint
         /\ truthy(heap[sensor[s].cavatica_headers]) =>
              /\ sensor'[s].cavatica_headers = sensor[s].cavatica_headers
              /\ heap'[sensor[s].cavatica_headers] = heap[sensor[s].cavatica_headers]
         /\ sensor'[s].cavatica_headers # sensor[s].cavatica_headers =>
              /\ Len(polls[s]) = 0
              /\ Len(polls'[s]) = 1
              /\ heap'[sensor'[s].cavatica_headers] =
                   build_headers(sensor[s].cavatica_conn_id, "ok").value
              /\ truthy(heap'[sensor'[s].cavatica_headers])
         /\ \A i \in DOMAIN polls'[s] : polls'[s][i].cred # "unused" => i = 1]_vars

C14_Witness ==
  \E s \in Sensors :
    /\ sensor[s].cavatica_headers = BuiltId(s)
    /\ Len(polls[s]) = 3
    /\ polls[s][1].cred = "ok"
    /\ polls[s][2].cred = "unused"
    /\ polls[s][3].cred = "unused"
    /\ Len(calls[s]) = 3
    /\ calls[s][1].headers = heap[BuiltId(s)]
    /\ calls[s][3].headers = calls[s][1].headers

\* The endpoint argument sensor s was constructed with (SensorArgs gives
\* each task id one endpoint).
EndpointGiven(s) ==
  (CHOOSE a \in SensorArgs : a.task = sensor[s].cavatica_task_id).endpoint

\* Further endpoint strings: '', '/', '/tasks//', '/storage/exports'.
EndpointSamples ==
  { <<>>, <<"/">>, <<"/","t","a","s","k","s","/","/">>,
    <<"/","s","t","o","r","a","g","e","/","e","x","p","o","r","t","s">> }

\* C16: the endpoint a sensor stores ends with '/', is the given endpoint
\* when that ends with '/', and is the given endpoint followed by '/'
\* otherwise; normalising it again changes nothing; every GET of the sensor
\* targets the stored endpoint followed by the task id, so '/tasks' and
\* '/tasks/' give the same target, '/tasks/<task id>'.
C16_EndpointNormalised ==
  /\ \A s \in Sensors :
       sensor[s].pc # "new" =>
         /\ endswith(sensor[s].endpoint, "/")
         /\ endswith(EndpointGiven(s), "/") => sensor[s].endpoint = EndpointGiven(s)
         /\ ~endswith(EndpointGiven(s), "/") =>
              sensor[s].endpoint = EndpointGiven(s) \o <<"/">>
         /\ normalise_endpoint(sensor[s].endpoint) = sensor[s].endpoint
         /\ sensor[s].endpoint = TasksEndpoint
         /\ \A i \in DOMAIN calls[s] :
              calls[s][i].endpoint = TasksEndpoint \o sensor[s].cavatica_task_id
  /\ \A e \in EndpointSamples :
       /\ endswith(normalise_endpoint(e), "/")
       /\ endswith(e, "/") => normalise_endpoint(e) = e
       /\ normalise_endpoint(normalise_endpoint(e)) = normalise_endpoint(e)

C16_Witness ==
  \E s, t \in Sensors :
    /\ sensor[s].pc # "new" /\ sensor[t].pc # "new"
    /\ EndpointGiven(s) = <<"/","t","a","s","k","s">>
    /\ EndpointGiven(t) = TasksEndpoint
    /\ Len(calls[s]) > 0 /\ Len(calls[t]) > 0
    /\ calls[s][1].endpoint = <<"/","t","a","s","k","s","/","t","2">>
    /\ calls[t][1].endpoint = <<"/","t","a","s","k","s","/","t","1">>


Instances == Sensors \cup Exports \cup Imports

\* What instance x holds and has done: its fields, the contents of the
\* dicts its fields refer to, its polls and its calls.
View(x) ==
  IF x \in Sensors
  THEN <<sensor[x], heap[sensor[x].cavatica_headers], polls[x], calls[x]>>
  ELSE IF x \in Exports
  THEN <<exportOp[x], heap[exportOp[x].cavatica_headers],
         heap[exportOp[x].optional_fields], calls[x]>>
  ELSE <<importOp[x], heap[importOp[x].cavatica_headers],
         heap[importOp[x].optional_fields], calls[x]>>

\* The step is a poke or an execute() of instance x.
Acted(x) ==
  IF x \in Sensors THEN Len(polls'[x]) > Len(polls[x])
  ELSE IF x \in Exports THEN exportOp'[x].pc # exportOp[x].pc
  ELSE importOp'[x].pc # importOp[x].pc

\* C15: no step changes the contents of a dict that exists, a default
\* argument's dict included; a poke or execute() of one instance changes
\* nothing another instance holds or has done (headers, optional fields,
\* payload, polls and their outcomes, calls); and a sensor that holds the
\* default headers still holds them, empty, after another sensor's poke.
C15_NoSharedMutableState ==
  [][/\ \A id \in DOMAIN heap :
          id \in DOMAIN heap' /\ heap'[id] = heap[id]
     /\ \A x \in Instances :
          Acted(x) => \A y \in Instances \ {x} : View(y)' = View(y)
     /\ \A s \in Sensors : \A t \in Sensors \ {s} :
          (Acted(s) /\ sensor[t].cavatica_headers = "sensor_default")
          => /\ sensor'[t].cavatica_headers = "sensor_default"
             /\ heap'["sensor_default"] = <<>>]_vars

C15_Witness ==
  /\ sensor["s1"].cavatica_headers = BuiltId("s1")
  /\ sensor["s2"].cavatica_headers = "sensor_default"
  /\ truthy(heap[BuiltId("s1")])
  /\ heap["sensor_default"] = <<>>
  /\ Len(polls["s1"]) = 2
  /\ Len(polls["s2"]) = 0
  /\ \E o \in Exports :
       /\ exportOp[o].pc = "done"
       /\ exportOp[o].optional_fields = "export_default"
       /\ heap["export_default"] = <<>>

====
